---- MODULE Spec2Model ----
(***************************************************************************)
(* vue-project-sentry: a two-view Vue application whose buttons raise demo  *)
(* errors for the Sentry SDK.  The model covers src/main.ts (the SDK        *)
(* bootstrap), src/views/HomeView.vue (ten trigger actions and the          *)
(* Activity Log) and src/views/AboutView.vue (nine trigger actions, the     *)
(* onErrorCaptured hook, the timers).                                       *)
(*                                                                         *)
(* Strings are sequences of tokens, so a template literal is a             *)
(* concatenation.  Time is counted in ticks of TickMs milliseconds.         *)
(***************************************************************************)
EXTENDS Integers, Sequences, FiniteSets, TLC

VARIABLES
    budget,             \* handler invocations the session is followed for
    now,                \* what new Date().toLocaleTimeString() returns
    mode,               \* import.meta.env.VITE_MODE
    pc,                 \* "boot" before main.ts has run, "run" after app.mount
    client,             \* TRUE once Sentry.init has constructed the client
    inits,              \* number of Sentry.init calls made in the session
    view,               \* the mounted view: "home" | "about"
    errorLog,           \* HomeView: errorLog.value
    componentError,     \* AboutView: componentError.value (Null or a string)
    errorCount,         \* AboutView: errorCount.value
    ErrorBoundaryTest,  \* AboutView: ErrorBoundaryTest.value
    inv,                \* one record per handler invocation: what it did
    timers,             \* pending setTimeout / setInterval callbacks
    fetches,            \* invocations awaiting the settlement of fetch()
    appended,           \* entries handed to unshift since the log was last empty
    last,               \* the handler or callback that ran last
    depth,              \* recursiveFunction: the depth of the innermost call
    hostLimit,          \* frames the host stack has room for
    outcome             \* how recursiveFunction(0) ended

vars == <<budget, now, mode, pc, client, inits, view, errorLog, componentError, errorCount,
          ErrorBoundaryTest, inv, timers, fetches, appended, last,
          depth, hostLimit, outcome>>

bootVars  == <<budget, mode, pc, client, inits>>
homeVars  == <<errorLog, appended>>
clockVars == <<now>>
aboutVars == <<componentError, errorCount, ErrorBoundaryTest>>
stackVars == <<depth, hostLimit, outcome>>

\* null, and the empty string: both make v-if false
Null == <<>>

Min(a, b) == IF a < b THEN a ELSE b

----------------------------------------------------------------------------
(* Bounds of the model *)

\* handler invocations (clicks, descendant faults) in one session
MaxClicks == 1
\* overlapping invocations of triggerMemoryLeak
MaxLeaks == 2
\* invocations in a session on the About view that sees descendant faults
MaxFaults == 3
\* clicks in a session on the Home view that fills the log
MaxAppends == 12
\* a host stack far too small for the recursion
LowHost == 40
\* frames a roomy host has beyond what the recursion needs
HostSlack == 25

(* Program constants *)

\* "if (errorLog.value.length > 10)" and "slice(0, 10)"
LogCap == 10
\* the shortest timer delay of the program; one tick of the model
TickMs == 100
\* setInterval(..., 100)
LeakIntervalMs == 100
\* setTimeout(..., 5000)
LeakTimeoutMs == 5000
\* HomeView: setTimeout(resolve, 100)
AsyncDelayMs == 100
\* triggerMultipleErrors: the three setTimeout delays
FirstErrorMs == 100
SecondErrorMs == 200
ThirdErrorMs == 300
\* triggerBreadcrumbTest: setTimeout(..., 500)
BreadcrumbDelayMs == 500
\* "if (depth > 10000)"
MaxDepth == 10000

Ticks(ms) == ms \div TickMs

----------------------------------------------------------------------------
(* HomeView.vue: the Activity Log *)

\* what new Date().toLocaleTimeString() returns in two different seconds
Times == {"10:00:00", "10:00:01"}

\* the message each Home trigger action hands to addLog (the source's
\* literals are Chinese; each is rendered here by a distinct English string)
HomeMessage ==
    [ triggerUndefinedFunction |-> "undefined function error triggered",
      triggerManualError       |-> "custom error thrown manually",
      triggerPromiseRejection  |-> "Promise rejection triggered",
      triggerAsyncError        |-> "async error triggered",
      triggerTypeError         |-> "type error triggered",
      triggerReferenceError    |-> "reference error triggered",
      triggerNetworkError      |-> "network error triggered",
      triggerCaptureException  |-> "Sentry.captureException used",
      triggerCaptureMessage    |-> "Sentry.captureMessage used",
      triggerErrorWithContext  |-> "error with context triggered" ]

HomeActions == DOMAIN HomeMessage

\* `${new Date().toLocaleTimeString()} - ${message}`
LogEntry(time, message) == <<time>> \o <<" - ">> \o <<message>>

\* Array.prototype.unshift
unshift(arr, x) == <<x>> \o arr

\* Array.prototype.slice(from, to) for 0 <= from <= to
slice(arr, from, to) == SubSeq(arr, from + 1, Min(to, Len(arr)))

\* a slip: push in place of unshift
addLogPush(log, time, message) ==
    LET pushed == Append(log, LogEntry(time, message))
    IN  IF Len(pushed) > LogCap THEN slice(pushed, 0, LogCap) ELSE pushed

\* a slip: the cap is never applied
addLogNoCap(log, time, message) == unshift(log, LogEntry(time, message))

\* addLog: the value of errorLog.value after addLog(message) at `time`
addLog(log, time, message) ==
    LET unshifted == unshift(log, LogEntry(time, message))
    IN  IF Len(unshifted) > LogCap THEN slice(unshifted, 0, LogCap) ELSE unshifted

\* a slip: clearLog drops the newest entry only
clearLogShift(log) == IF log = <<>> THEN log ELSE Tail(log)

\* clearLog: the value of errorLog.value after clearLog()
clearLog(log) == <<>>

----------------------------------------------------------------------------
(* The record of one handler invocation *)

\* a fresh record for an invocation of handler `act`
NewInv(act) ==
    [ act       |-> act,
      raised    |-> 0,      \* errors raised inside the action or its callbacks
      flying    |-> 0,      \* raised and not caught (yet)
      held      |-> 0,      \* caught, in the catch block's variable
      escaped   |-> 0,      \* left a handler or timer callback uncaught
      rejected  |-> 0,      \* left as a rejected promise nobody handles
      swallowed |-> 0,      \* caught and never raised again
      wrapped   |-> 0,      \* caught and raised again inside a new Error
      captured  |-> 0,      \* handed to the onErrorCaptured hook
      reports   |-> 0,      \* captureException / captureMessage calls
      delivered |-> 0,      \* of those, the ones a client received
      extras    |-> 0,      \* setContext / addBreadcrumb calls
      crumbs    |-> <<>>,   \* categories in the client's breadcrumb buffer
      msg       |-> <<>>,   \* a descendant fault: its message and Vue's info
      req       |-> "none", \* fetch(): none | pending | failed | ok
      cause     |-> <<>>,   \* the error fetch() rejected with: <<name, message>>
      text      |-> <<>>,   \* the message of the error raised for a failed fetch
      buf       |-> 0 ]     \* leakyArray.length

\* throw new Error(...), or a host-raised error (ReferenceError, TypeError, ...)
RaiseError(r) == [r EXCEPT !.raised = @ + 1, !.flying = @ + 1]

\* try { ... } catch (e) {
Catch(r) == [r EXCEPT !.flying = 0, !.held = @ + r.flying]

\* throw e, inside the catch block
Rethrow(r) == [r EXCEPT !.held = 0, !.flying = @ + r.held]

\* throw new Error(prefix + e), inside the catch block: e is spent, a new
\* error flies
ThrowWrapped(r) == [r EXCEPT !.held = 0, !.flying = @ + r.held, !.wrapped = @ + r.held]

\* the end of a synchronous handler or of a timer callback
Finish(r) ==
    [r EXCEPT !.escaped = @ + r.flying, !.swallowed = @ + r.held,
              !.flying = 0, !.held = 0]

\* the end of an async function, or of a statement that drops a rejected promise
FinishAsync(r) ==
    [r EXCEPT !.rejected = @ + r.flying, !.swallowed = @ + r.held,
              !.flying = 0, !.held = 0]

----------------------------------------------------------------------------
(* @sentry/vue as the views call it.  Without a client every entry point   *)
(* returns without doing anything.                                          *)

\* Sentry.captureException(error, hint)
captureException(r) ==
    [r EXCEPT !.reports = @ + 1, !.delivered = @ + (IF client THEN 1 ELSE 0)]

\* Sentry.captureMessage(text, options)
captureMessage(r) ==
    [r EXCEPT !.reports = @ + 1, !.delivered = @ + (IF client THEN 1 ELSE 0)]

\* Sentry.setContext(key, value)
setContext(r) == [r EXCEPT !.extras = @ + 1]

\* Sentry.addBreadcrumb({category, ...})
addBreadcrumb(r, category) ==
    [r EXCEPT !.extras = @ + 1,
              !.crumbs = IF client THEN Append(@, category) ELSE @]

----------------------------------------------------------------------------
(* main.ts *)

Modes == {"production", "development", "undefined"}
Views == {"home", "about"}

\* a slip: Sentry.init outside the if
MainAlways ==
    /\ pc = "boot"
    /\ client' = TRUE
    /\ inits' = inits + 1
    /\ pc' = "run"
    /\ last' = "main"
    /\ UNCHANGED <<budget, mode, view, homeVars, aboutVars, inv, timers, fetches, clockVars, stackVars>>

\* main.ts, top to bottom: createApp, the guarded Sentry.init, use, mount
Main ==
    /\ pc = "boot"
    /\ IF mode = "production"
         THEN client' = TRUE /\ inits' = inits + 1
         ELSE UNCHANGED <<client, inits>>
    /\ pc' = "run"
    /\ last' = "main"
    /\ UNCHANGED <<budget, mode, view, homeVars, aboutVars, inv, timers, fetches, clockVars, stackVars>>

\* router.push('/about') in HomeView, router.push('/') in AboutView: the
\* view left is unmounted, the other is mounted with fresh refs
Navigate ==
    /\ pc = "run"
    /\ view' = IF view = "home" THEN "about" ELSE "home"
    /\ errorLog' = <<>>
    /\ appended' = <<>>
    /\ componentError' = Null
    /\ errorCount' = 0
    /\ ErrorBoundaryTest' = FALSE
    /\ last' = "navigate"
    /\ UNCHANGED <<bootVars, inv, timers, fetches, clockVars, stackVars>>

----------------------------------------------------------------------------
(* HomeView.vue: the trigger actions *)

\* a button of view v can be clicked
CanClick(v) == pc = "run" /\ view = v /\ Len(inv) < budget

\* the id the next invocation gets
NextId == Len(inv) + 1

\* the call addLog(HomeMessage[act]) inside a Home action
LogStep(act) ==
    /\ errorLog' = addLog(errorLog, now, HomeMessage[act])
    /\ appended' = Append(appended, LogEntry(now, HomeMessage[act]))

\* what every Home action shares: the click, the log entry, the record
HomeClick(act, rec) ==
    /\ CanClick("home")
    /\ LogStep(act)
    /\ inv' = Append(inv, rec)
    /\ last' = act
    /\ UNCHANGED <<bootVars, view, aboutVars, clockVars, stackVars>>

\* a slip: the catch block ends without "throw error"
triggerUndefinedFunctionNoRethrow ==
    /\ HomeClick("triggerUndefinedFunction",
                 Finish(Catch(RaiseError(NewInv("triggerUndefinedFunction")))))
    /\ UNCHANGED <<timers, fetches>>

\* 1. try { myUndefinedFunction() } catch (error) { addLog(...); throw error }
triggerUndefinedFunction ==
    /\ HomeClick("triggerUndefinedFunction",
                 Finish(Rethrow(Catch(RaiseError(NewInv("triggerUndefinedFunction"))))))
    /\ UNCHANGED <<timers, fetches>>

\* 2. addLog(...); throw new Error(...)
triggerManualError ==
    /\ HomeClick("triggerManualError", Finish(RaiseError(NewInv("triggerManualError"))))
    /\ UNCHANGED <<timers, fetches>>

\* 3. addLog(...); Promise.reject(new Error(...)), the promise dropped
triggerPromiseRejection ==
    /\ HomeClick("triggerPromiseRejection",
                 Finish(FinishAsync(RaiseError(NewInv("triggerPromiseRejection")))))
    /\ UNCHANGED <<timers, fetches>>

\* 4. addLog(...); await a 100 ms timer; the throw follows in asyncResume
triggerAsyncError ==
    /\ HomeClick("triggerAsyncError", NewInv("triggerAsyncError"))
    /\ timers' = timers \cup {[inv |-> NextId, kind |-> "asyncResume", left |-> Ticks(AsyncDelayMs)]}
    /\ UNCHANGED fetches

\* 5. addLog(...); obj.property of null
triggerTypeError ==
    /\ HomeClick("triggerTypeError", Finish(RaiseError(NewInv("triggerTypeError"))))
    /\ UNCHANGED <<timers, fetches>>

\* 6. addLog(...); nonExistentVariable
triggerReferenceError ==
    /\ HomeClick("triggerReferenceError", Finish(RaiseError(NewInv("triggerReferenceError"))))
    /\ UNCHANGED <<timers, fetches>>

\* 7. addLog(...); try { await fetch(...) }: the request is in flight
triggerNetworkError ==
    /\ HomeClick("triggerNetworkError", [NewInv("triggerNetworkError") EXCEPT !.req = "pending"])
    /\ fetches' = fetches \cup {NextId}
    /\ UNCHANGED timers

\* 8. addLog(...); Sentry.captureException(error, {...})
triggerCaptureException ==
    /\ HomeClick("triggerCaptureException",
                 Finish(captureException(NewInv("triggerCaptureException"))))
    /\ UNCHANGED <<timers, fetches>>

\* a slip: the Sentry call is left out
triggerCaptureMessageSilent ==
    /\ HomeClick("triggerCaptureMessage", Finish(NewInv("triggerCaptureMessage")))
    /\ UNCHANGED <<timers, fetches>>

\* 9. addLog(...); Sentry.captureMessage(text, {...})
triggerCaptureMessage ==
    /\ HomeClick("triggerCaptureMessage",
                 Finish(captureMessage(NewInv("triggerCaptureMessage"))))
    /\ UNCHANGED <<timers, fetches>>

\* 10. addLog(...); Sentry.setContext(...); throw new Error(...)
triggerErrorWithContext ==
    /\ HomeClick("triggerErrorWithContext",
                 Finish(RaiseError(setContext(NewInv("triggerErrorWithContext")))))
    /\ UNCHANGED <<timers, fetches>>

\* the clear button: clearLog()
clearLogClick ==
    /\ pc = "run"
    /\ view = "home"
    /\ errorLog' = clearLog(errorLog)
    /\ appended' = <<>>
    /\ last' = "clearLog"
    /\ UNCHANGED <<bootVars, view, aboutVars, inv, timers, fetches, clockVars, stackVars>>

----------------------------------------------------------------------------
(* AboutView.vue: the trigger actions *)

\* what every About action shares: the click and the record
AboutClick(act, rec) ==
    /\ CanClick("about")
    /\ inv' = Append(inv, rec)
    /\ last' = act
    /\ UNCHANGED <<bootVars, view, homeVars, clockVars, stackVars>>

Timer(i, kind, ms) == [inv |-> i, kind |-> kind, left |-> Ticks(ms)]

\* 1. setInterval(push, 100); captureMessage; setTimeout(clear, 5000)
triggerMemoryLeak ==
    /\ AboutClick("triggerMemoryLeak", Finish(captureMessage(NewInv("triggerMemoryLeak"))))
    /\ timers' = timers \cup { Timer(NextId, "leakInterval", LeakIntervalMs),
                               Timer(NextId, "leakTimeout", LeakTimeoutMs) }
    /\ UNCHANGED <<aboutVars, fetches>>

\* 2. captureMessage; a loop of 1000000 rounds; throw new Error(...)
triggerInfiniteLoop ==
    /\ AboutClick("triggerInfiniteLoop",
                  Finish(RaiseError(captureMessage(NewInv("triggerInfiniteLoop")))))
    /\ UNCHANGED <<aboutVars, timers, fetches>>

\* 3. captureMessage; recursiveFunction(0), which ends in an error, its own
\* or the host's
triggerStackOverflow ==
    /\ AboutClick("triggerStackOverflow",
                  Finish(RaiseError(captureMessage(NewInv("triggerStackOverflow")))))
    /\ UNCHANGED <<aboutVars, timers, fetches>>

\* 4. captureMessage; JSON.parse of an invalid literal
triggerJSONError ==
    /\ AboutClick("triggerJSONError",
                  Finish(RaiseError(captureMessage(NewInv("triggerJSONError")))))
    /\ UNCHANGED <<aboutVars, timers, fetches>>

\* 5. captureMessage; try { await fetch(...) }: the request is in flight
triggerCORSError ==
    /\ AboutClick("triggerCORSError",
                  [captureMessage(NewInv("triggerCORSError")) EXCEPT !.req = "pending"])
    /\ fetches' = fetches \cup {NextId}
    /\ UNCHANGED <<aboutVars, timers>>

\* 6. captureMessage; three setTimeout callbacks at 100, 200 and 300 ms
triggerMultipleErrors ==
    /\ AboutClick("triggerMultipleErrors",
                  Finish(captureMessage(NewInv("triggerMultipleErrors"))))
    /\ timers' = timers \cup { Timer(NextId, "firstError", FirstErrorMs),
                               Timer(NextId, "secondError", SecondErrorMs),
                               Timer(NextId, "thirdError", ThirdErrorMs) }
    /\ UNCHANGED <<aboutVars, fetches>>

\* 7. new CustomBusinessError(...); captureException(error, {...}); throw error
triggerCustomError ==
    /\ AboutClick("triggerCustomError",
                  Finish(RaiseError(captureException(NewInv("triggerCustomError")))))
    /\ UNCHANGED <<aboutVars, timers, fetches>>

\* 9. ErrorBoundaryTest.value = true; errorCount.value++
triggerComponentError ==
    /\ AboutClick("triggerComponentError", Finish(NewInv("triggerComponentError")))
    /\ ErrorBoundaryTest' = TRUE
    /\ errorCount' = errorCount + 1
    /\ UNCHANGED <<componentError, timers, fetches>>

\* a slip: the navigation breadcrumb is added before the user-action one
triggerBreadcrumbTestSwapped ==
    /\ AboutClick("triggerBreadcrumbTest",
                  Finish(addBreadcrumb(addBreadcrumb(addBreadcrumb(
                      NewInv("triggerBreadcrumbTest"),
                      "navigation"), "user-action"), "api")))
    /\ timers' = timers \cup {Timer(NextId, "breadcrumbThrow", BreadcrumbDelayMs)}
    /\ UNCHANGED <<aboutVars, fetches>>

\* 10. three addBreadcrumb calls; setTimeout(throw, 500)
triggerBreadcrumbTest ==
    /\ AboutClick("triggerBreadcrumbTest",
                  Finish(addBreadcrumb(addBreadcrumb(addBreadcrumb(
                      NewInv("triggerBreadcrumbTest"),
                      "user-action"), "navigation"), "api")))
    /\ timers' = timers \cup {Timer(NextId, "breadcrumbThrow", BreadcrumbDelayMs)}
    /\ UNCHANGED <<aboutVars, fetches>>

----------------------------------------------------------------------------
(* AboutView.vue: the onErrorCaptured hook and the error alert *)

\* errors a descendant component can raise, and Vue's info strings
FaultMessages == {"fault A", "fault B"}
FaultInfos == {"render function", "setup function"}

\* the hook's body: the value it stores and the value it returns
onErrorCaptured(err, info) ==
    [ componentError |-> <<err>> \o <<" (">> \o <<info>> \o <<")">>,
      ret            |-> FALSE ]

\* Vue's handleError: a hook that returns false stops the error there; any
\* other return value lets it go on to the parent hooks and the app handler
Propagates(ret) == ret # FALSE

\* a slip: the hook keeps the first fault it saw
descendantFaultKeepFirst ==
    /\ CanClick("about")
    /\ \E err \in FaultMessages, info \in FaultInfos :
         LET hook == onErrorCaptured(err, info)
             seen == [RaiseError(NewInv("descendantFault")) EXCEPT
                         !.captured = @ + 1, !.msg = <<err, info>>]
         IN  /\ componentError' = IF componentError = Null
                                    THEN hook.componentError ELSE componentError
             /\ inv' = Append(inv, IF Propagates(hook.ret)
                                     THEN Finish(seen) ELSE Finish(Catch(seen)))
    /\ last' = "onErrorCaptured"
    /\ UNCHANGED <<bootVars, view, homeVars, errorCount, ErrorBoundaryTest,
                   timers, fetches, clockVars, stackVars>>

\* a descendant of AboutView raises err; Vue hands it to the hook
descendantFault ==
    /\ CanClick("about")
    /\ \E err \in FaultMessages, info \in FaultInfos :
         LET hook == onErrorCaptured(err, info)
             seen == [RaiseError(NewInv("descendantFault")) EXCEPT
                         !.captured = @ + 1, !.msg = <<err, info>>]
         IN  /\ componentError' = hook.componentError
             /\ inv' = Append(inv, IF Propagates(hook.ret)
                                     THEN Finish(seen) ELSE Finish(Catch(seen)))
    /\ last' = "onErrorCaptured"
    /\ UNCHANGED <<bootVars, view, homeVars, errorCount, ErrorBoundaryTest,
                   timers, fetches, clockVars, stackVars>>

\* the alert's close button, rendered while componentError is truthy
closeAlert ==
    /\ pc = "run"
    /\ view = "about"
    /\ componentError # Null
    /\ componentError' = Null
    /\ last' = "closeAlert"
    /\ UNCHANGED <<bootVars, view, homeVars, errorCount, ErrorBoundaryTest,
                   inv, timers, fetches, clockVars, stackVars>>

----------------------------------------------------------------------------
(* The event loop: timer callbacks, settled requests, the passing of time *)

\* the timers of a kind that are due
Due(kind) == {t \in timers : t.kind = kind /\ t.left = 0}

\* a callback ran: only the record of its invocation and the timers change
Callback(name) ==
    /\ last' = name
    /\ UNCHANGED <<bootVars, view, homeVars, aboutVars, fetches, clockVars, stackVars>>

\* triggerAsyncError resumes after its await and throws: the promise it
\* returned is rejected
asyncResume ==
    /\ \E t \in Due("asyncResume") :
         /\ inv' = [inv EXCEPT ![t.inv] = FinishAsync(RaiseError(@))]
         /\ timers' = timers \ {t}
    /\ Callback("asyncResume")

\* triggerMemoryLeak's interval callback: leakyArray.push(...); the interval
\* stays armed
leakInterval ==
    /\ \E t \in Due("leakInterval") :
         /\ inv' = [inv EXCEPT ![t.inv].buf = @ + 1]
         /\ timers' = (timers \ {t}) \cup {Timer(t.inv, "leakInterval", LeakIntervalMs)}
    /\ Callback("leakInterval")

\* a slip: the array is emptied and the interval never cleared
leakTimeoutNoClear ==
    /\ \E t \in Due("leakTimeout") :
         /\ inv' = [inv EXCEPT ![t.inv].buf = 0]
         /\ timers' = timers \ {t}
    /\ Callback("leakTimeout")

\* triggerMemoryLeak's timeout callback: clearInterval(interval);
\* leakyArray.length = 0
leakTimeout ==
    /\ \E t \in Due("leakTimeout") :
         /\ inv' = [inv EXCEPT ![t.inv].buf = 0]
         /\ timers' = {u \in timers : u # t /\ ~(u.inv = t.inv /\ u.kind = "leakInterval")}
    /\ Callback("leakTimeout")

\* the first and the second callback of triggerMultipleErrors:
\* try { throw new Error(...) } catch (e) { Sentry.captureException(e) }
caughtError ==
    /\ \E t \in Due("firstError") \cup Due("secondError") :
         /\ inv' = [inv EXCEPT ![t.inv] = Finish(captureException(Catch(RaiseError(@))))]
         /\ timers' = timers \ {t}
    /\ Callback("caughtError")

\* the third callback of triggerMultipleErrors: throw new Error(...)
thirdError ==
    /\ \E t \in Due("thirdError") :
         /\ inv' = [inv EXCEPT ![t.inv] = Finish(RaiseError(@))]
         /\ timers' = timers \ {t}
    /\ Callback("thirdError")

\* the callback of triggerBreadcrumbTest: throw new Error(...)
breadcrumbThrow ==
    /\ \E t \in Due("breadcrumbThrow") :
         /\ inv' = [inv EXCEPT ![t.inv] = Finish(RaiseError(@))]
         /\ timers' = timers \ {t}
    /\ Callback("breadcrumbThrow")

\* the errors fetch() rejects with when the request cannot be made or
\* answered: <<name, message>>, the message being the browser's
TransportErrors ==
    { <<"TypeError", "Failed to fetch">>,
      <<"TypeError", "NetworkError when attempting to fetch resource.">> }

\* Error.prototype.toString, which `prefix + error` applies to the error
ErrorToString(e) ==
    IF e[2] = "" THEN <<e[1]>>
    ELSE IF e[1] = "" THEN <<e[2]>>
    ELSE <<e[1], ": ", e[2]>>

\* the literal each request action puts in front of the error (Chinese in the
\* source: '网络请求失败: ' and '跨域请求失败: ')
WrapPrefix(act) ==
    IF act = "triggerNetworkError" THEN "network request failed: "
    ELSE "cross-origin request failed: "

\* new Error(prefix + error).message
WrappedMessage(act, e) == <<WrapPrefix(act)>> \o ErrorToString(e)

\* a slip: the catch block raises the error it caught, as `throw error`
fetchRejectsUnwrapped ==
    /\ \E i \in fetches, e \in TransportErrors :
         /\ inv' = [inv EXCEPT ![i] =
                       FinishAsync(Rethrow(Catch(RaiseError(
                           [@ EXCEPT !.req = "failed", !.cause = e,
                                     !.text = <<e[2]>>]))))]
         /\ fetches' = fetches \ {i}
    /\ last' = "fetchRejects"
    /\ UNCHANGED <<bootVars, view, homeVars, aboutVars, timers, clockVars, stackVars>>

\* fetch() rejects: catch (error) { throw new Error(prefix + error) } inside
\* an async function
fetchRejects ==
    /\ \E i \in fetches, e \in TransportErrors :
         /\ inv' = [inv EXCEPT ![i] =
                       FinishAsync(ThrowWrapped(Catch(RaiseError(
                           [@ EXCEPT !.req = "failed", !.cause = e,
                                     !.text = WrappedMessage(inv[i].act, e)]))))]
         /\ fetches' = fetches \ {i}
    /\ last' = "fetchRejects"
    /\ UNCHANGED <<bootVars, view, homeVars, aboutVars, timers, clockVars, stackVars>>

\* fetch() resolves: the try block ends and the async function returns
fetchResolves ==
    /\ \E i \in fetches :
         /\ inv' = [inv EXCEPT ![i] = FinishAsync([@ EXCEPT !.req = "ok"])]
         /\ fetches' = fetches \ {i}
    /\ last' = "fetchResolves"
    /\ UNCHANGED <<bootVars, view, homeVars, aboutVars, timers, clockVars, stackVars>>

\* the wall clock shows another second
ClockTick ==
    /\ pc = "run"
    /\ now' \in Times \ {now}
    /\ last' = "clock"
    /\ UNCHANGED <<bootVars, view, homeVars, aboutVars, inv, timers, fetches, stackVars>>

\* TickMs milliseconds pass while no callback is due
Tick ==
    /\ timers # {}
    /\ \A t \in timers : t.left > 0
    /\ timers' = {[t EXCEPT !.left = @ - 1] : t \in timers}
    /\ last' = "tick"
    /\ UNCHANGED <<bootVars, view, homeVars, aboutVars, inv, fetches, clockVars, stackVars>>

----------------------------------------------------------------------------
(* The session: main.ts, then clicks, callbacks and time *)

Init ==
    /\ budget = MaxClicks
    /\ now \in Times
    /\ mode \in Modes
    /\ pc = "boot"
    /\ client = FALSE
    /\ inits = 0
    /\ view \in Views
    /\ errorLog = <<>>
    /\ appended = <<>>
    /\ componentError = Null
    /\ errorCount = 0
    /\ ErrorBoundaryTest = FALSE
    /\ inv = <<>>
    /\ timers = {}
    /\ fetches = {}
    /\ last = "none"
    /\ depth = 0
    /\ hostLimit = LowHost
    /\ outcome = "none"

Next ==
    \/ Main
    \/ Navigate
    \/ triggerUndefinedFunction
    \/ triggerManualError
    \/ triggerPromiseRejection
    \/ triggerAsyncError
    \/ triggerTypeError
    \/ triggerReferenceError
    \/ triggerNetworkError
    \/ triggerCaptureException
    \/ triggerCaptureMessage
    \/ triggerErrorWithContext
    \/ clearLogClick
    \/ triggerMemoryLeak
    \/ triggerInfiniteLoop
    \/ triggerStackOverflow
    \/ triggerJSONError
    \/ triggerCORSError
    \/ triggerMultipleErrors
    \/ triggerCustomError
    \/ triggerComponentError
    \/ triggerBreadcrumbTest
    \/ descendantFault
    \/ closeAlert
    \/ asyncResume
    \/ leakInterval
    \/ leakTimeout
    \/ caughtError
    \/ thirdError
    \/ breadcrumbThrow
    \/ fetchRejects
    \/ fetchResolves
    \/ Tick
    \/ ClockTick

Spec == Init /\ [][Next]_vars

----------------------------------------------------------------------------
(* Sessions that start with the application mounted on one view *)

\* the state main.ts leaves behind, with view v mounted, b invocations to
\* follow and a host out of `hosts`
Mounted(v, b, hosts) ==
    /\ budget = b
    /\ now \in Times
    /\ mode \in Modes
    /\ pc = "run"
    /\ client = (mode = "production")
    /\ inits = IF mode = "production" THEN 1 ELSE 0
    /\ view = v
    /\ errorLog = <<>>
    /\ appended = <<>>
    /\ componentError = Null
    /\ errorCount = 0
    /\ ErrorBoundaryTest = FALSE
    /\ inv = <<>>
    /\ timers = {}
    /\ fetches = {}
    /\ last = "none"
    /\ depth = 0
    /\ hostLimit \in hosts
    /\ outcome = "none"

(* The Activity Log under many clicks *)

LogInit == Mounted("home", MaxAppends, {LowHost}) /\ mode = "development"

LogNext ==
    \/ triggerManualError
    \/ triggerCaptureMessage
    \/ clearLogClick

SpecLog == LogInit /\ [][LogNext]_vars

(* Overlapping runs of triggerMemoryLeak *)

LeakInit == Mounted("about", MaxLeaks, {LowHost}) /\ mode = "production" /\ now = "10:00:00"

LeakNext ==
    \/ triggerMemoryLeak
    \/ leakInterval
    \/ leakTimeout
    \/ Tick

SpecLeak == LeakInit /\ [][LeakNext]_vars

\* the event loop runs every callback that is due, and time passes
SpecLeakFair ==
    /\ SpecLeak
    /\ WF_vars(leakInterval)
    /\ WF_vars(leakTimeout)
    /\ WF_vars(Tick)

(* Descendant faults among the About view's own actions *)

BoundaryInit == Mounted("about", MaxFaults, {LowHost}) /\ mode = "production" /\ now = "10:00:00"

BoundaryNext ==
    \/ descendantFault
    \/ closeAlert
    \/ triggerInfiniteLoop
    \/ triggerStackOverflow
    \/ triggerJSONError
    \/ triggerCORSError
    \/ triggerMultipleErrors
    \/ triggerCustomError
    \/ triggerComponentError
    \/ triggerBreadcrumbTest
    \/ caughtError
    \/ thirdError
    \/ breadcrumbThrow
    \/ fetchRejects
    \/ fetchResolves
    \/ Tick

SpecBoundary == BoundaryInit /\ [][BoundaryNext]_vars

----------------------------------------------------------------------------
(* triggerStackOverflow, one call of recursiveFunction at a time *)

\* the hosts: one with a small stack, one a frame short, one with just
\* enough room, one with room to spare
HostLimits == {LowHost, MaxDepth + 1, MaxDepth + 2, MaxDepth + 2 + HostSlack}

\* frames of recursiveFunction on the stack while the call at `depth` runs
Frames(d) == d + 1

StackInit ==
    /\ Mounted("about", MaxClicks, HostLimits)
    /\ mode = "production"
    /\ now = "10:00:00"

StackFrame == UNCHANGED <<bootVars, view, homeVars, aboutVars, timers, fetches,
                          clockVars, hostLimit>>

\* the click: captureMessage, then recursiveFunction(0)
stackOverflowClick ==
    /\ CanClick("about")
    /\ outcome = "none"
    /\ inv' = Append(inv, captureMessage(NewInv("triggerStackOverflow")))
    /\ depth' = 0
    /\ outcome' = "running"
    /\ last' = "triggerStackOverflow"
    /\ StackFrame

\* "return recursiveFunction(depth + 1)" where the host has room for the frame
recursiveFunction ==
    /\ outcome = "running"
    /\ ~(depth > MaxDepth)
    /\ Frames(depth + 1) <= hostLimit
    /\ depth' = depth + 1
    /\ UNCHANGED <<inv, outcome, last>>
    /\ StackFrame

\* "if (depth > 10000) throw new Error(...)": the error leaves the handler
controlledThrow ==
    /\ outcome = "running"
    /\ depth > MaxDepth
    /\ outcome' = "controlled"
    /\ inv' = [inv EXCEPT ![Len(inv)] = Finish(RaiseError(@))]
    /\ UNCHANGED <<depth, last>>
    /\ StackFrame

\* "return recursiveFunction(depth + 1)" where the host has no room left: the
\* host raises RangeError, which leaves the handler
hostStackOverflow ==
    /\ outcome = "running"
    /\ ~(depth > MaxDepth)
    /\ Frames(depth + 1) > hostLimit
    /\ outcome' = "RangeError"
    /\ inv' = [inv EXCEPT ![Len(inv)] = Finish(RaiseError(@))]
    /\ UNCHANGED <<depth, last>>
    /\ StackFrame

StackNext ==
    \/ stackOverflowClick
    \/ recursiveFunction
    \/ controlledThrow
    \/ hostStackOverflow

SpecStack == StackInit /\ [][StackNext]_vars

----------------------------------------------------------------------------
(* Vocabulary of the properties *)

\* invocation i has no callback left to run
Settled(i) ==
    /\ i \in 1..Len(inv)
    /\ i \notin fetches
    /\ \A t \in timers : t.inv # i

\* the record belongs to a button of a view, not to a descendant's fault
IsTrigger(r) == r.act # "descendantFault"

\* side effects of an invocation: throws, rejections, direct report calls
Effects(r) == r.escaped + r.rejected + r.reports

Reverse(s) == [i \in 1..Len(s) |-> s[Len(s) + 1 - i]]

\* the last n elements of s, or all of s
LastN(s, n) == SubSeq(s, Len(s) - Min(n, Len(s)) + 1, Len(s))

\* the step is a call of addLog
AddLogStep == Len(appended') = Len(appended) + 1

----------------------------------------------------------------------------
(* C1: the Activity Log never holds more than 10 entries; addLog on a log  *)
(* of 10 entries removes the oldest entry, the last element, and leaves 10 *)
(* entries: the new one followed by the 9 newest of before.                *)
C1_LogCapped ==
    [][ /\ Len(errorLog') <= LogCap
        /\ (AddLogStep /\ Len(errorLog) = LogCap) =>
              /\ Len(errorLog') = LogCap
              /\ SubSeq(errorLog', 2, LogCap) = SubSeq(errorLog, 1, LogCap - 1)
              /\ errorLog[LogCap] = appended[Len(appended) - LogCap + 1]
              /\ errorLog'[LogCap] = appended[Len(appended) - LogCap + 2] ]_vars

\* an eleventh entry has been added and an entry evicted
C1_Witness ==
    /\ Len(appended) > LogCap
    /\ Len(errorLog) = LogCap
    /\ last \in HomeActions

(* C8: clearLog leaves the empty log whatever the log held; a second       *)
(* clearLog changes nothing; the entry added right after a clear is the    *)
(* only entry of the log.                                                  *)
C8_ClearLog ==
    [][ /\ last' = "clearLog" => errorLog' = <<>>
        /\ clearLog(clearLog(errorLog')) = clearLog(errorLog')
        /\ (last = "clearLog" /\ last' = "clearLog") => errorLog' = errorLog
        /\ (last = "clearLog" /\ AddLogStep) =>
              errorLog' = <<LogEntry(now, HomeMessage[last'])>> ]_vars

\* two clicks, a clear between them: the log holds the second entry alone
C8_Witness ==
    /\ Len(inv) >= 2
    /\ Len(appended) = 1
    /\ errorLog = appended
    /\ last \in HomeActions

(* C10: the log is ordered newest first: addLog(m) puts the entry for m    *)
(* first, followed by the first min(|L|, 9) entries of the log L of        *)
(* before, in their order; so the log is the last up-to-10 entries         *)
(* appended, newest first.                                                 *)
C10_NewestFirst ==
    [][ /\ AddLogStep =>
              /\ errorLog'[1] = LogEntry(now, HomeMessage[last'])
              /\ Tail(errorLog') = SubSeq(errorLog, 1, Min(Len(errorLog), LogCap - 1))
        /\ errorLog' = Reverse(LastN(appended', LogCap)) ]_vars

\* more than ten entries were appended, and the two newest differ
C10_Witness ==
    /\ Len(appended) > LogCap
    /\ errorLog[1] = appended[Len(appended)]
    /\ errorLog[2] = appended[Len(appended) - 1]
    /\ errorLog[1] # errorLog[2]

(* C2: the onErrorCaptured hook does not suppress: every fault it          *)
(* intercepts is recorded in componentError and goes on to the parent and  *)
(* global handlers; none stops at the boundary.                            *)
C2_BoundaryPropagates ==
    \A i \in 1..Len(inv) :
        inv[i].captured > 0 =>
            /\ inv[i].escaped = inv[i].captured
            /\ inv[i].swallowed = 0

(* C3: with the monitoring client present, one invocation of a trigger     *)
(* action produces exactly one side effect: one throw, one rejection or    *)
(* one direct report call.                                                 *)
C3_ExactlyOneEffect ==
    \A i \in 1..Len(inv) :
        (client /\ IsTrigger(inv[i]) /\ Settled(i)) => Effects(inv[i]) = 1

(* C3, amended: with the client present, one invocation raises at most one *)
(* uncaught error (a throw or an unhandled rejection) and makes at most    *)
(* three direct report calls; once its callbacks have run it has produced  *)
(* no side effect at all exactly when it is triggerComponentError, or      *)
(* triggerNetworkError whose request succeeded, and more than one exactly  *)
(* when it is an About action that reports and raises: triggerInfiniteLoop,*)
(* triggerStackOverflow, triggerJSONError, triggerCustomError,             *)
(* triggerMultipleErrors (four), or triggerCORSError whose request failed. *)
C3_EffectsPerAction ==
    \A i \in 1..Len(inv) :
        (client /\ IsTrigger(inv[i])) =>
            LET r == inv[i] IN
            /\ r.escaped + r.rejected <= 1
            /\ r.reports <= 3
            /\ r.reports = r.delivered
            /\ Settled(i) =>
                  /\ Effects(r) = 0 <=>
                        \/ r.act = "triggerComponentError"
                        \/ r.act = "triggerNetworkError" /\ r.req = "ok"
                  /\ Effects(r) > 1 <=>
                        \/ r.act \in {"triggerInfiniteLoop", "triggerStackOverflow",
                                      "triggerJSONError", "triggerCustomError",
                                      "triggerMultipleErrors"}
                        \/ r.act = "triggerCORSError" /\ r.req = "failed"
                  /\ r.act = "triggerMultipleErrors" => Effects(r) = 4

\* with the client present, triggerMultipleErrors has run all its callbacks
C3_Witness ==
    \E i \in 1..Len(inv) :
        /\ client
        /\ Settled(i)
        /\ inv[i].act = "triggerMultipleErrors"
        /\ inv[i].reports = 3
        /\ inv[i].escaped = 1

(* C6: Sentry.init runs at most once, and only when VITE_MODE is           *)
(* 'production'; under any other value, or none, no client exists in the   *)
(* session and the report calls of the trigger actions deliver nothing and *)
(* raise nothing: the action goes on as with a client.                     *)
C6_BootstrapGuard ==
    /\ inits <= 1
    /\ client <=> inits = 1
    /\ client => mode = "production"
    /\ (pc = "run" /\ mode = "production") => client
    /\ mode # "production" =>
          \A i \in 1..Len(inv) :
              LET r == inv[i] IN
              /\ r.delivered = 0
              /\ r.crumbs = <<>>
              /\ r.act \in {"triggerCaptureException", "triggerCaptureMessage"} =>
                    r.reports = 1 /\ r.raised = 0
              /\ r.act \in {"triggerErrorWithContext", "triggerCustomError"} =>
                    r.reports + r.extras = 1 /\ r.escaped = 1

\* no client, and an action has called a report entry point
C6_Witness ==
    /\ mode = "undefined"
    /\ pc = "run"
    /\ ~client
    /\ \E i \in 1..Len(inv) : inv[i].reports + inv[i].extras > 0

(* C9: no trigger action suppresses its own fault: an error raised inside  *)
(* an action or its callbacks is raised again or left as an unhandled      *)
(* rejection; none is caught and dropped.                                  *)
C9_NothingSwallowed ==
    \A i \in 1..Len(inv) : IsTrigger(inv[i]) => inv[i].swallowed = 0

(* C9, amended: the first two timer callbacks of triggerMultipleErrors     *)
(* catch their error and hand it to Sentry.captureException without        *)
(* raising it again; on every other path an error raised inside a trigger  *)
(* action or its callbacks leaves it as a throw or an unhandled rejection. *)
C9_SwallowedOnlyByMultiple ==
    \A i \in 1..Len(inv) :
        IsTrigger(inv[i]) =>
            LET r == inv[i] IN
            /\ r.swallowed > 0 => r.act = "triggerMultipleErrors"
            /\ r.swallowed <= 2
            /\ r.act = "triggerMultipleErrors" => r.reports = 1 + r.swallowed
            /\ Settled(i) => r.raised = r.escaped + r.rejected + r.swallowed

\* triggerMultipleErrors is through: two errors caught and reported, one thrown
C9_Witness ==
    \E i \in 1..Len(inv) :
        /\ Settled(i)
        /\ inv[i].act = "triggerMultipleErrors"
        /\ inv[i].swallowed = 2
        /\ inv[i].escaped = 1

\* `${err.message} (${info})` for the fault invocation r intercepted
FaultText(r) == <<r.msg[1], " (", r.msg[2], ")">>

(* C7: componentError holds one fault at most: after a fault is            *)
(* intercepted it shows that fault alone, whatever was shown before; while *)
(* the About view is mounted only the close button empties it, and only an *)
(* interception gives it a value.                                          *)
C7_LastFaultOnly ==
    [][ /\ last' = "onErrorCaptured" /\ Len(inv') > Len(inv) =>
              componentError' = FaultText(inv'[Len(inv')])
        /\ (componentError' # componentError /\ componentError' # Null) =>
              last' = "onErrorCaptured" /\ Len(inv') > Len(inv)
        /\ (componentError # Null /\ componentError' = Null) =>
              last' = "closeAlert"
        /\ componentError' = Null \/
              \E err \in FaultMessages, info \in FaultInfos :
                  componentError' = <<err, " (", info, ")">> ]_vars

\* fault A, then a different fault B: the alert shows B
C7_Witness ==
    /\ Len(inv) >= 2
    /\ inv[1].act = "descendantFault"
    /\ inv[2].act = "descendantFault"
    /\ inv[1].msg[1] # inv[2].msg[1]
    /\ componentError = FaultText(inv[2])
    /\ last = "onErrorCaptured"

----------------------------------------------------------------------------
\* invocation i of triggerMemoryLeak has started
LeakStarted(i) == i <= Len(inv)

\* its 5 s timer has fired
LeakBoundPassed(i) ==
    /\ LeakStarted(i)
    /\ \A t \in timers : ~(t.inv = i /\ t.kind = "leakTimeout")

\* its interval is cancelled and its array is empty
LeakOver(i) ==
    /\ LeakStarted(i)
    /\ \A t \in timers : t.inv # i
    /\ inv[i].buf = 0

(* C4: every invocation of triggerMemoryLeak, overlapping ones included,   *)
(* comes to the point where its 5 s timer fires, cancels its interval and  *)
(* empties its array, with no click needed; from then on it allocates      *)
(* nothing and its array stays empty; once the 5 s timer of every          *)
(* invocation has fired no interval is left.  Until then it allocates at   *)
(* most once per 100 ms.                                                   *)
C4_LeakBounded ==
    /\ \A i \in 1..MaxLeaks : LeakStarted(i) ~> LeakOver(i)
    /\ [][ \A i \in 1..Len(inv') :
              /\ (i <= Len(inv) /\ LeakOver(i)) => LeakOver(i)'
              /\ LeakBoundPassed(i)' => LeakOver(i)'
              /\ inv'[i].buf <= Ticks(LeakTimeoutMs) \div Ticks(LeakIntervalMs) ]_vars
    /\ [][ (\A i \in 1..Len(inv') : LeakBoundPassed(i)') =>
              \A t \in timers' : t.kind # "leakInterval" ]_vars

\* two invocations overlap: the first is over, the second still allocates
C4_Witness ==
    /\ Len(inv) >= 2
    /\ LeakOver(1)
    /\ inv[2].buf > 0
    /\ \E t \in timers : t.inv = 2 /\ t.kind = "leakInterval"

(* C5: triggerStackOverflow ends in its own error, raised when depth is    *)
(* 10001, on every host: never in the host's stack overflow error, never   *)
(* deeper than 10001.                                                      *)
C5_ControlledAtDepth ==
    /\ depth <= MaxDepth + 1
    /\ outcome \in {"none", "running", "controlled"}
    /\ outcome = "controlled" => depth = MaxDepth + 1

----------------------------------------------------------------------------
\* the categories triggerBreadcrumbTest adds, in the order of its calls
BreadcrumbTrail == <<"user-action", "navigation", "api">>

(* C11: triggerBreadcrumbTest makes its three addBreadcrumb calls before   *)
(* it returns, so a client's buffer holds user-action, navigation, api in  *)
(* that order; the action returns without raising; the throw comes in a    *)
(* later step, the timer callback that is due 500 ms after the click, and  *)
(* finds the whole trail in place.                                         *)
C11_TrailBeforeThrow ==
    [][ \A i \in 1..Len(inv') :
          inv'[i].act = "triggerBreadcrumbTest" =>
            /\ inv'[i].extras = Len(BreadcrumbTrail)
            /\ client' => inv'[i].crumbs = BreadcrumbTrail
            /\ inv'[i].raised <= 1
            /\ i > Len(inv) =>
                  /\ inv'[i].raised = 0
                  /\ inv'[i].escaped = 0
                  /\ \E t \in timers' :
                        /\ t.inv = i
                        /\ t.kind = "breadcrumbThrow"
                        /\ t.left = Ticks(BreadcrumbDelayMs)
                        /\ t.left > 0
            /\ (i <= Len(inv) /\ inv'[i].raised > inv[i].raised) =>
                  /\ last' = "breadcrumbThrow"
                  /\ \E t \in timers : t.inv = i /\ t.left = 0
                  /\ inv[i].crumbs = inv'[i].crumbs
                  /\ inv[i].extras = Len(BreadcrumbTrail)
                  /\ inv'[i].escaped = 1 ]_vars

\* with a client: the trail is in the buffer and the deferred throw has happened
C11_Witness ==
    /\ client
    /\ last = "breadcrumbThrow"
    /\ \E i \in 1..Len(inv) :
          /\ inv[i].act = "triggerBreadcrumbTest"
          /\ Settled(i)
          /\ inv[i].crumbs = BreadcrumbTrail
          /\ inv[i].escaped = 1

----------------------------------------------------------------------------
\* the two actions that request an unreachable resource
RequestActions == {"triggerNetworkError", "triggerCORSError"}

(* C12: when the fetch of triggerNetworkError or triggerCORSError fails,   *)
(* the action ends in exactly one raised error (the rejection of its async *)
(* function), and that error is a new one whose message is the action's    *)
(* prefix followed by the transport error's string; the transport error is *)
(* neither swallowed nor raised as it came.                                *)
C12_FailureWrapped ==
    \A i \in 1..Len(inv) :
       (inv[i].act \in RequestActions /\ inv[i].req = "failed") =>
          /\ inv[i].cause \in TransportErrors
          /\ inv[i].rejected + inv[i].escaped = 1
          /\ inv[i].wrapped = 1
          /\ inv[i].swallowed = 0
          /\ inv[i].flying = 0 /\ inv[i].held = 0
          /\ inv[i].text = <<WrapPrefix(inv[i].act)>> \o ErrorToString(inv[i].cause)
          /\ inv[i].text # ErrorToString(inv[i].cause)
          /\ inv[i].text # <<inv[i].cause[2]>>

\* a request of the About view has failed and its wrapped error is out
C12_Witness ==
    /\ last = "fetchRejects"
    /\ \E i \in 1..Len(inv) :
          /\ inv[i].act = "triggerCORSError"
          /\ inv[i].req = "failed"
          /\ inv[i].rejected = 1
          /\ inv[i].text = <<"cross-origin request failed: ", "TypeError", ": ",
                             "Failed to fetch">>

====
